---- MODULE Spec2Model ----
(***************************************************************************)
(* Model of src/src/App.tsx: the App component (React state, the           *)
(* connection effect, the menu and dialog handlers), the Scene component   *)
(* that composes the rendered transform, and the EventSource / fetch       *)
(* objects the component talks to.                                         *)
(*                                                                         *)
(* Numbers.  Angles are integers in units of 1e-4 rad (Math.PI / 2 is      *)
(* 15708) and scales are integers in units of 0.1 (the initial scale 1 is  *)
(* 10).  Floating point rounding is not modelled.                          *)
(*                                                                         *)
(* Scheduling.  Everything runs on one event loop.  A handler is one step. *)
(* The connection effect is a step of its own that React runs after the    *)
(* render that changed one of its dependencies and before any other event  *)
(* is handled; effectPending says such a run is due.                       *)
(*                                                                         *)
(* Environment.  An EventSource is a record of its URL, its readyState and *)
(* the number of events the transport has queued for it.  A queued event   *)
(* is dispatched to the listeners only if the source is not CLOSED when    *)
(* its turn comes (HTML standard, server-sent events); close() leaves the  *)
(* queue as it is.  A fetch is an entry in uploads or resets until it      *)
(* settles with a status or a rejection.  After unmount the listeners and  *)
(* the pending fetches remain, and their state setters change nothing.     *)
(*                                                                         *)
(* History.  ev, nCmds and nApply record what happened; the program does   *)
(* not read them.                                                          *)
(***************************************************************************)
EXTENDS Integers, Sequences, FiniteSets

\* ---------------------------------------------------------------- bounds
\* number of user commands (menu items, dialog buttons, typing) in a run
MaxCmds == 3
\* number of events the transport may have queued for one EventSource
MaxInflight == 2

\* ---------------------------------------------------------------- values
\* window.location.origin (line 78) and another address the user may type
Origin == "http://origin"
Device == "http://device"
Urls == {Origin, Device}

\* Math.PI / 2 in 1e-4 rad (lines 138, 142, 146)
HalfPi == 15708
\* the scale useState(1) starts from, in tenths (line 81)
InitialScale == 10
\* the deltas of the four scale menu items, in tenths (lines 150-161)
ScaleDeltas == {1, 10, 0 - 1, 0 - 10}

\* EventSource.readyState
CONNECTING == 0
OPEN == 1
CLOSED == 2

Null == "null"
ErrorMessage == "Connection could not be established"
NoModel == << >>

\* JavaScript values a rotation component can hold
Num(n) == [t |-> "number", v |-> n]
Undefined == [t |-> "undefined", v |-> 0]
NaN == [t |-> "NaN", v |-> 0]
IsNum(a) == a.t = "number"

\* JavaScript a + b for a, b a number, undefined or NaN
JsAdd(a, b) == IF IsNum(a) /\ IsNum(b) THEN Num(a.v + b.v) ELSE NaN

\* ------------------------------------------------------- data payloads
\* payloads of the 'data' event: two well-formed samples, an object without
\* the fields, JSON null, and text that is not JSON
Sample123 == "{\"x\":1.0,\"y\":2.0,\"z\":3.0}"
Sample000 == "{\"x\":0,\"y\":0,\"z\":0}"
EmptyObject == "{}"
JsonNull == "null"
NotJson == "garbage"
ValidPayloads == {Sample123, Sample000}
MalformedPayloads == {EmptyObject, JsonNull, NotJson}
Payloads == ValidPayloads \cup MalformedPayloads

Obj(x, y, z) == [t |-> "object", x |-> x, y |-> y, z |-> z]

\* JSON.parse(event.data) (line 107): the parsed value, or the SyntaxError
JSONParse(text) ==
  CASE text = Sample123 -> Obj(Num(10000), Num(20000), Num(30000))
    [] text = Sample000 -> Obj(Num(0), Num(0), Num(0))
    [] text = EmptyObject -> Obj(Undefined, Undefined, Undefined)
    [] text = JsonNull -> [t |-> "null", x |-> Undefined, y |-> Undefined, z |-> Undefined]
    [] OTHER -> [t |-> "SyntaxError", x |-> Undefined, y |-> Undefined, z |-> Undefined]

\* ----------------------------------------------------------------- state
VARIABLES
  mounted,               \* the App component is mounted
  effectPending,         \* a run of the connection effect is due
  connectionDialogOpen,
  modelDialogOpen,
  connectionUrl,
  changeConnectionUrl,
  modelRotation,
  modelScale,
  rotation,
  model,
  eventSource,           \* index into sources, 0 for null
  connectionError,
  sources,               \* every EventSource created, in creation order
  uploads,               \* uploadModel requests without a response yet, per URL
  resets,                \* reset requests without a response yet, per URL
  frame,                 \* what Scene handed to the renderer at the last render
  ev,                    \* the event handled by the last step
  nCmds,                 \* user commands so far
  nApply                 \* presses of 'Set and use' so far

vars == <<mounted, effectPending, connectionDialogOpen, modelDialogOpen,
          connectionUrl, changeConnectionUrl, modelRotation, modelScale,
          rotation, model, eventSource, connectionError, sources, uploads,
          resets, frame, ev, nCmds, nApply>>

Event(type, src, arg, n) == [type |-> type, src |-> src, arg |-> arg, n |-> n]

\* ----------------------------------------------------------------- Scene
\* mutant of Scene: the offset of axis 2 is added to axis 3 and back
SceneAxesCrossed(pModelRotation, pGltf, pModelScale, pRotation) ==
  [kind |-> IF pGltf # NoModel THEN "gltf" ELSE "box",
   gltf |-> pGltf,
   rotation |-> <<JsAdd(pRotation[1], Num(pModelRotation[1])),
                  JsAdd(pRotation[2], Num(pModelRotation[3])),
                  JsAdd(pRotation[3], Num(pModelRotation[2]))>>,
   scale |-> pModelScale]

\* Scene (lines 42-73): unifiedRotation and the scale handed to <Center> of
\* the custom model or to <Box>
Scene(pModelRotation, pGltf, pModelScale, pRotation) ==
  [kind |-> IF pGltf # NoModel THEN "gltf" ELSE "box",
   gltf |-> pGltf,
   rotation |-> <<JsAdd(pRotation[1], Num(pModelRotation[1])),
                  JsAdd(pRotation[2], Num(pModelRotation[2])),
                  JsAdd(pRotation[3], Num(pModelRotation[3]))>>,
   scale |-> pModelScale]

\* the render that follows every state change (line 222); an unmounted
\* component renders nothing
Render ==
  frame' = IF mounted' THEN Scene(modelRotation', model', modelScale', rotation')
           ELSE frame

Init ==
  /\ mounted = TRUE
  /\ effectPending = TRUE
  /\ connectionDialogOpen = FALSE
  /\ modelDialogOpen = FALSE
  /\ connectionUrl = Origin
  /\ changeConnectionUrl = TRUE
  /\ modelRotation = <<0, 0, 0>>
  /\ modelScale = InitialScale
  /\ rotation = <<Num(0), Num(0), Num(0)>>
  /\ model = NoModel
  /\ eventSource = 0
  /\ connectionError = Null
  /\ sources = << >>
  /\ uploads = [u \in Urls |-> 0]
  /\ resets = [u \in Urls |-> 0]
  /\ frame = Scene(<<0, 0, 0>>, NoModel, InitialScale, <<Num(0), Num(0), Num(0)>>)
  /\ ev = Event("mount", 0, "", 0)
  /\ nCmds = 0
  /\ nApply = 0

\* a user command can be handled: the component is mounted, no effect run
\* is due, and the run has commands left
CanCommand == mounted /\ ~effectPending /\ nCmds < MaxCmds

\* ------------------------------------------------- the connection effect
\* EventSource.close(): readyState becomes CLOSED; events already queued for
\* the source stay queued and are dropped when their turn comes
EventSourceClose(srcs, i) == [srcs EXCEPT ![i].readyState = CLOSED]

\* mutant of ClosePrevious: the previous source is left as it is
ClosePreviousSkipped(srcs, es) == srcs

\* if (eventSource) { eventSource.close(); } (lines 90-92)
ClosePrevious(srcs, es) == IF es = 0 THEN srcs ELSE EventSourceClose(srcs, es)

\* new EventSource(`${connectionUrl}/events`) (line 95)
NewEventSource(url) ==
  [url |-> <<url, "/events">>, readyState |-> CONNECTING, queued |-> 0]

\* mutant of AppliedFlag: the flag is left set
AppliedFlagKept == TRUE

\* setChangeConnectionUrl(false) (line 111): the flag after a connection
\* was set up
AppliedFlag == FALSE

\* mutant of ConnectionEffect: setting up a connection also clears the
\* rotation received on the previous one
ConnectionEffectResetsRotation ==
  /\ mounted
  /\ effectPending
  /\ IF changeConnectionUrl
       THEN /\ sources' = Append(ClosePrevious(sources, eventSource),
                                   NewEventSource(connectionUrl))
            /\ connectionError' = Null
            /\ eventSource' = Len(sources) + 1
            /\ changeConnectionUrl' = AppliedFlag
            /\ rotation' = <<Num(0), Num(0), Num(0)>>
            /\ effectPending' = TRUE
       ELSE /\ effectPending' = FALSE
            /\ UNCHANGED <<sources, connectionError, eventSource,
                           changeConnectionUrl, rotation>>
  /\ ev' = Event("effect", eventSource', "", 0)
  /\ UNCHANGED <<mounted, connectionDialogOpen, modelDialogOpen, connectionUrl,
                 modelRotation, modelScale, model, uploads, resets,
                 nCmds, nApply>>
  /\ Render

\* the body of useEffect (lines 88-113), run with the state of the render
\* that scheduled it
ConnectionEffect ==
  /\ mounted
  /\ effectPending
  /\ IF changeConnectionUrl
       THEN /\ sources' = Append(ClosePrevious(sources, eventSource),
                                   NewEventSource(connectionUrl))
            /\ connectionError' = Null
            /\ eventSource' = Len(sources) + 1
            /\ changeConnectionUrl' = AppliedFlag
            \* eventSource and changeConnectionUrl changed: the effect runs again
            /\ effectPending' = TRUE
       ELSE /\ effectPending' = FALSE
            /\ UNCHANGED <<sources, connectionError, eventSource, changeConnectionUrl>>
  /\ ev' = Event("effect", eventSource', "", 0)
  /\ UNCHANGED <<mounted, connectionDialogOpen, modelDialogOpen, connectionUrl,
                 modelRotation, modelScale, rotation, model, uploads, resets,
                 nCmds, nApply>>
  /\ Render

\* ------------------------------------------------------------ Setup menu
\* 'Setup connection' (line 122)
OpenConnectionDialog ==
  /\ CanCommand
  /\ connectionDialogOpen' = TRUE
  /\ ev' = Event("openConnectionDialog", 0, "", 0)
  /\ nCmds' = nCmds + 1
  /\ UNCHANGED <<mounted, effectPending, modelDialogOpen, connectionUrl,
                 changeConnectionUrl, modelRotation, modelScale, rotation, model,
                 eventSource, connectionError, sources, uploads, resets, nApply>>
  /\ Render

\* 'Reset device rotation' (line 125): fetch(`${connectionUrl}/reset`)
ResetDevice ==
  /\ CanCommand
  /\ resets' = [resets EXCEPT ![connectionUrl] = @ + 1]
  /\ ev' = Event("reset", 0, connectionUrl, 0)
  /\ nCmds' = nCmds + 1
  /\ UNCHANGED <<mounted, effectPending, connectionDialogOpen, modelDialogOpen,
                 connectionUrl, changeConnectionUrl, modelRotation, modelScale,
                 rotation, model, eventSource, connectionError, sources, uploads,
                 nApply>>
  /\ Render

\* a fetch that rejects (network failure) is written as status 0
Rejected == 0
ResponseStatuses == {200, 404, 500}
FetchOutcomes == ResponseStatuses \cup {Rejected}

\* mutant of ResetSettled: a rejected request is shown as a connection error
ResetSettledShowsError(u, outcome) ==
  /\ ~effectPending
  /\ resets[u] > 0
  /\ resets' = [resets EXCEPT ![u] = @ - 1]
  /\ connectionError' = IF mounted /\ outcome = Rejected THEN ErrorMessage
                        ELSE connectionError
  /\ ev' = Event("resetSettled", 0, u, outcome)
  /\ UNCHANGED <<mounted, effectPending, connectionDialogOpen, modelDialogOpen,
                 connectionUrl, changeConnectionUrl, modelRotation, modelScale,
                 rotation, model, eventSource, sources, uploads, nCmds, nApply>>
  /\ Render

\* the reset request settles (line 125): a response of any status is ignored,
\* a rejection goes to console.error
ResetSettled(u, outcome) ==
  /\ ~effectPending
  /\ resets[u] > 0
  /\ resets' = [resets EXCEPT ![u] = @ - 1]
  /\ ev' = Event("resetSettled", 0, u, outcome)
  /\ UNCHANGED <<mounted, effectPending, connectionDialogOpen, modelDialogOpen,
                 connectionUrl, changeConnectionUrl, modelRotation, modelScale,
                 rotation, model, eventSource, connectionError, sources, uploads,
                 nCmds, nApply>>
  /\ Render

\* ------------------------------------------------------------ Model menu
\* 'Load model' (line 133)
OpenModelDialog ==
  /\ CanCommand
  /\ modelDialogOpen' = TRUE
  /\ ev' = Event("openModelDialog", 0, "", 0)
  /\ nCmds' = nCmds + 1
  /\ UNCHANGED <<mounted, effectPending, connectionDialogOpen, connectionUrl,
                 changeConnectionUrl, modelRotation, modelScale, rotation, model,
                 eventSource, connectionError, sources, uploads, resets, nApply>>
  /\ Render

\* mutant of RotateBy: the quarter turn goes to the following axis
RotateByNextAxis(prevState, axis) == [prevState EXCEPT ![(axis % 3) + 1] = @ + HalfPi]

\* mutant of RotateBy: the angle is kept within a full turn
RotateByWrapped(prevState, axis) ==
  [prevState EXCEPT ![axis] = (@ + HalfPi) % (4 * HalfPi)]

\* prevState => prevState with Math.PI / 2 added on one axis (lines 138, 142, 146)
RotateBy(prevState, axis) == [prevState EXCEPT ![axis] = @ + HalfPi]

\* 'Rotate model (X|Y|Z) by 90°' (lines 137-148), axis 1, 2, 3 for X, Y, Z
RotateModelStep(axis) ==
  /\ modelRotation' = RotateBy(modelRotation, axis)
  /\ ev' = Event("rotate", 0, "", axis)
  /\ nCmds' = nCmds + 1
  /\ UNCHANGED <<mounted, effectPending, connectionDialogOpen, modelDialogOpen,
                 connectionUrl, changeConnectionUrl, modelScale, rotation, model,
                 eventSource, connectionError, sources, uploads, resets, nApply>>
  /\ Render

RotateModel(axis) == CanCommand /\ RotateModelStep(axis)

\* 'Scale model by d' (lines 150-161)
ScaleModelStep(d) ==
  /\ modelScale' = modelScale + d
  /\ ev' = Event("scale", 0, "", d)
  /\ nCmds' = nCmds + 1
  /\ UNCHANGED <<mounted, effectPending, connectionDialogOpen, modelDialogOpen,
                 connectionUrl, changeConnectionUrl, modelRotation, rotation, model,
                 eventSource, connectionError, sources, uploads, resets, nApply>>
  /\ Render

ScaleModel(d) == CanCommand /\ ScaleModelStep(d)

\* ----------------------------------------------------- connection dialog
\* onOpenChange of the connection dialog when the user dismisses it (line 167)
DismissConnectionDialog ==
  /\ CanCommand
  /\ connectionDialogOpen
  /\ connectionDialogOpen' = FALSE
  /\ ev' = Event("dismissConnectionDialog", 0, "", 0)
  /\ nCmds' = nCmds + 1
  /\ UNCHANGED <<mounted, effectPending, modelDialogOpen, connectionUrl,
                 changeConnectionUrl, modelRotation, modelScale, rotation, model,
                 eventSource, connectionError, sources, uploads, resets, nApply>>
  /\ Render

\* onChange of the URL input (line 175); connectionUrl is a dependency of
\* the effect
ChangeUrlInput(u) ==
  /\ CanCommand
  /\ connectionDialogOpen
  /\ u # connectionUrl
  /\ connectionUrl' = u
  /\ effectPending' = TRUE
  /\ ev' = Event("changeUrlInput", 0, u, 0)
  /\ nCmds' = nCmds + 1
  /\ UNCHANGED <<mounted, connectionDialogOpen, modelDialogOpen,
                 changeConnectionUrl, modelRotation, modelScale, rotation, model,
                 eventSource, connectionError, sources, uploads, resets, nApply>>
  /\ Render

\* 'Set and use' (lines 179-182): the configuration-apply action
SetAndUse ==
  /\ CanCommand
  /\ connectionDialogOpen
  /\ connectionDialogOpen' = FALSE
  /\ changeConnectionUrl' = TRUE
  /\ effectPending' = (changeConnectionUrl # TRUE)
  /\ ev' = Event("setAndUse", 0, connectionUrl, 0)
  /\ nCmds' = nCmds + 1
  /\ nApply' = nApply + 1
  /\ UNCHANGED <<mounted, modelDialogOpen, connectionUrl, modelRotation,
                 modelScale, rotation, model, eventSource, connectionError,
                 sources, uploads, resets>>
  /\ Render

\* 'Cancel and reset' (lines 183-186)
CancelAndReset ==
  /\ CanCommand
  /\ connectionDialogOpen
  /\ connectionUrl' = Origin
  /\ connectionDialogOpen' = FALSE
  /\ effectPending' = (connectionUrl # Origin)
  /\ ev' = Event("cancelAndReset", 0, "", 0)
  /\ nCmds' = nCmds + 1
  /\ UNCHANGED <<mounted, modelDialogOpen, changeConnectionUrl, modelRotation,
                 modelScale, rotation, model, eventSource, connectionError,
                 sources, uploads, resets, nApply>>
  /\ Render

\* ---------------------------------------------------------- model dialog
\* onChange of the file input (lines 198-211); hasFile is false when the
\* change event carries no file (line 200)
ModelFileChange(hasFile) ==
  /\ CanCommand
  /\ modelDialogOpen
  /\ uploads' = IF hasFile THEN [uploads EXCEPT ![connectionUrl] = @ + 1] ELSE uploads
  /\ ev' = Event("modelFileChange", 0, connectionUrl, IF hasFile THEN 1 ELSE 0)
  /\ nCmds' = nCmds + 1
  /\ UNCHANGED <<mounted, effectPending, connectionDialogOpen, modelDialogOpen,
                 connectionUrl, changeConnectionUrl, modelRotation, modelScale,
                 rotation, model, eventSource, connectionError, sources, resets,
                 nApply>>
  /\ Render

\* mutant of UploadThen: only status 200 counts as success
UploadThenOkOnly(prevModel, url, status) ==
  IF status = 200 THEN <<url, "/model.glb">> ELSE prevModel

\* the .then callback of the upload (lines 206-210), in the closure of the
\* render in which the file was chosen: url is that render's connectionUrl
UploadThen(prevModel, url, status) ==
  IF status # 404 THEN <<url, "/model.glb">> ELSE prevModel

\* the uploadModel request sent to u settles (lines 203-210): a response
\* runs the .then callback, a rejection skips it; setModel on an unmounted
\* component changes nothing
UploadSettled(u, outcome) ==
  /\ ~effectPending
  /\ uploads[u] > 0
  /\ uploads' = [uploads EXCEPT ![u] = @ - 1]
  /\ model' = IF mounted /\ outcome # Rejected THEN UploadThen(model, u, outcome)
              ELSE model
  /\ ev' = Event("uploadSettled", 0, u, outcome)
  /\ UNCHANGED <<mounted, effectPending, connectionDialogOpen, modelDialogOpen,
                 connectionUrl, changeConnectionUrl, modelRotation, modelScale,
                 rotation, eventSource, connectionError, sources, resets, nCmds,
                 nApply>>
  /\ Render

\* the 'Set' button (line 214)
ModelDialogSet ==
  /\ CanCommand
  /\ modelDialogOpen
  /\ modelDialogOpen' = FALSE
  /\ ev' = Event("modelDialogSet", 0, "", 0)
  /\ nCmds' = nCmds + 1
  /\ UNCHANGED <<mounted, effectPending, connectionDialogOpen, connectionUrl,
                 changeConnectionUrl, modelRotation, modelScale, rotation, model,
                 eventSource, connectionError, sources, uploads, resets, nApply>>
  /\ Render

\* onOpenChange of the model dialog when the user dismisses it (line 190)
DismissModelDialog ==
  /\ CanCommand
  /\ modelDialogOpen
  /\ modelDialogOpen' = FALSE
  /\ ev' = Event("dismissModelDialog", 0, "", 0)
  /\ nCmds' = nCmds + 1
  /\ UNCHANGED <<mounted, effectPending, connectionDialogOpen, connectionUrl,
                 changeConnectionUrl, modelRotation, modelScale, rotation, model,
                 eventSource, connectionError, sources, uploads, resets, nApply>>
  /\ Render

\* mutant of ModelDialogCancel: the offsets are reset with the model
ModelDialogCancelResetsOffsets ==
  /\ CanCommand
  /\ modelDialogOpen
  /\ model' = NoModel
  /\ modelRotation' = <<0, 0, 0>>
  /\ modelScale' = InitialScale
  /\ modelDialogOpen' = FALSE
  /\ ev' = Event("modelDialogCancel", 0, "", 0)
  /\ nCmds' = nCmds + 1
  /\ UNCHANGED <<mounted, effectPending, connectionDialogOpen, connectionUrl,
                 changeConnectionUrl, rotation, eventSource, connectionError,
                 sources, uploads, resets, nApply>>
  /\ Render

\* the 'Cancel' button of the model dialog (lines 215-218)
ModelDialogCancel ==
  /\ CanCommand
  /\ modelDialogOpen
  /\ model' = NoModel
  /\ modelDialogOpen' = FALSE
  /\ ev' = Event("modelDialogCancel", 0, "", 0)
  /\ nCmds' = nCmds + 1
  /\ UNCHANGED <<mounted, effectPending, connectionDialogOpen, connectionUrl,
                 changeConnectionUrl, modelRotation, modelScale, rotation,
                 eventSource, connectionError, sources, uploads, resets, nApply>>
  /\ Render

\* ---------------------------------------------------------------- unmount
\* what the effect leaves to run when the component goes away: useEffect
\* (lines 88-113) returns no cleanup function, so nothing is done to the
\* EventSource objects
EffectCleanup(srcs, es) == srcs

\* React unmounts App: its state is dropped, the listeners registered on the
\* EventSource objects and the pending fetches stay
Unmount ==
  /\ mounted
  /\ ~effectPending
  /\ mounted' = FALSE
  /\ sources' = EffectCleanup(sources, eventSource)
  /\ ev' = Event("unmount", 0, "", 0)
  /\ UNCHANGED <<effectPending, connectionDialogOpen, modelDialogOpen,
                 connectionUrl, changeConnectionUrl, modelRotation, modelScale,
                 rotation, model, eventSource, connectionError, uploads, resets,
                 nCmds, nApply>>
  /\ Render

\* ------------------------------------------------------------ EventSource
Live(srcs) == {i \in 1..Len(srcs) : srcs[i].readyState # CLOSED}

\* the transport queues an event (open, data or error) for a source that is
\* not closed; the event is dispatched by a later task
TransportEvent(i) ==
  /\ ~effectPending
  /\ i \in Live(sources)
  /\ sources[i].queued < MaxInflight
  /\ sources' = [sources EXCEPT ![i].queued = @ + 1]
  /\ ev' = Event("transport", i, "", 0)
  /\ UNCHANGED <<mounted, effectPending, connectionDialogOpen, modelDialogOpen,
                 connectionUrl, changeConnectionUrl, modelRotation, modelScale,
                 rotation, model, eventSource, connectionError, uploads, resets,
                 nCmds, nApply>>
  /\ Render

\* the task of a queued event finds its source CLOSED and dispatches nothing
DropEvent(i) ==
  /\ ~effectPending
  /\ i \in 1..Len(sources)
  /\ sources[i].queued > 0
  /\ sources[i].readyState = CLOSED
  /\ sources' = [sources EXCEPT ![i].queued = @ - 1]
  /\ ev' = Event("drop", i, "", 0)
  /\ UNCHANGED <<mounted, effectPending, connectionDialogOpen, modelDialogOpen,
                 connectionUrl, changeConnectionUrl, modelRotation, modelScale,
                 rotation, model, eventSource, connectionError, uploads, resets,
                 nCmds, nApply>>
  /\ Render

\* 'open' is dispatched on a connecting source; the listener (lines 97-99)
\* only logs
OpenEvent(i) ==
  /\ ~effectPending
  /\ i \in 1..Len(sources)
  /\ sources[i].queued > 0
  /\ sources[i].readyState = CONNECTING
  /\ sources' = [sources EXCEPT ![i].queued = @ - 1, ![i].readyState = OPEN]
  /\ ev' = Event("open", i, "", 0)
  /\ UNCHANGED <<mounted, effectPending, connectionDialogOpen, modelDialogOpen,
                 connectionUrl, changeConnectionUrl, modelRotation, modelScale,
                 rotation, model, eventSource, connectionError, uploads, resets,
                 nCmds, nApply>>
  /\ Render

\* mutant of ErrorListener: source.close() is not called
ErrorListenerNoClose(srcs, i) ==
  [connectionError |-> ErrorMessage, sources |-> srcs]

\* the 'error' listener (lines 101-104) of source i: the new error message
\* and the sources after source.close()
ErrorListener(srcs, i) ==
  [connectionError |-> ErrorMessage, sources |-> EventSourceClose(srcs, i)]

\* 'error' is dispatched on a source that is connecting or open: the
\* transport has either failed for good (readyState CLOSED) or is about to
\* reconnect by itself (readyState CONNECTING) when the listener runs
ErrorEvent(i, fatal) ==
  /\ ~effectPending
  /\ i \in Live(sources)
  /\ sources[i].queued > 0
  /\ LET dispatched == [sources EXCEPT ![i].queued = @ - 1,
                                       ![i].readyState = IF fatal THEN CLOSED ELSE CONNECTING]
         after == ErrorListener(dispatched, i)
     IN /\ sources' = after.sources
        /\ connectionError' = IF mounted THEN after.connectionError ELSE connectionError
  /\ ev' = Event("error", i, "", 0)
  /\ UNCHANGED <<mounted, effectPending, connectionDialogOpen, modelDialogOpen,
                 connectionUrl, changeConnectionUrl, modelRotation, modelScale,
                 rotation, model, eventSource, uploads, resets, nCmds, nApply>>
  /\ Render

\* mutant of DataListener: the axes are passed on in sensor order
DataListenerNoSwap(prevRotation, text) ==
  LET data == JSONParse(text)
  IN IF data.t = "SyntaxError" \/ data.t = "null"
       THEN prevRotation
       ELSE <<data.x, data.y, data.z>>

\* mutant of DataListener: a sample is applied only while no sample has
\* been applied yet
DataListenerFirstWins(prevRotation, text) ==
  LET data == JSONParse(text)
  IN IF data.t = "SyntaxError" \/ data.t = "null"
          \/ prevRotation # <<Num(0), Num(0), Num(0)>>
       THEN prevRotation
       ELSE <<data.x, data.z, data.y>>

\* the 'data' listener (lines 106-109): the rotation it sets, or the previous
\* one when JSON.parse throws (line 107) or reading data.x of null throws
\* (line 108); the exception ends the listener, nothing else
DataListener(prevRotation, text) ==
  LET data == JSONParse(text)
  IN IF data.t = "SyntaxError" \/ data.t = "null"
       THEN prevRotation
       ELSE <<data.x, data.z, data.y>>

\* 'data' with payload text is dispatched on an open source
DataEvent(i, text) ==
  /\ ~effectPending
  /\ i \in 1..Len(sources)
  /\ sources[i].queued > 0
  /\ sources[i].readyState = OPEN
  /\ sources' = [sources EXCEPT ![i].queued = @ - 1]
  /\ rotation' = IF mounted THEN DataListener(rotation, text) ELSE rotation
  /\ ev' = Event("data", i, text, 0)
  /\ UNCHANGED <<mounted, effectPending, connectionDialogOpen, modelDialogOpen,
                 connectionUrl, changeConnectionUrl, modelRotation, modelScale,
                 model, eventSource, connectionError, uploads, resets, nCmds,
                 nApply>>
  /\ Render

\* ------------------------------------------------------------------ Next
Next ==
  \/ ConnectionEffect
  \/ OpenConnectionDialog
  \/ ResetDevice
  \/ \E u \in Urls, outcome \in FetchOutcomes : ResetSettled(u, outcome)
  \/ OpenModelDialog
  \/ \E axis \in 1..3 : RotateModel(axis)
  \/ \E d \in ScaleDeltas : ScaleModel(d)
  \/ DismissConnectionDialog
  \/ \E u \in Urls : ChangeUrlInput(u)
  \/ SetAndUse
  \/ CancelAndReset
  \/ \E hasFile \in BOOLEAN : ModelFileChange(hasFile)
  \/ \E u \in Urls, outcome \in FetchOutcomes : UploadSettled(u, outcome)
  \/ ModelDialogSet
  \/ DismissModelDialog
  \/ ModelDialogCancel
  \/ Unmount
  \/ \E i \in 1..Len(sources) : TransportEvent(i)
  \/ \E i \in 1..Len(sources) : DropEvent(i)
  \/ \E i \in 1..Len(sources) : OpenEvent(i)
  \/ \E i \in 1..Len(sources), fatal \in BOOLEAN : ErrorEvent(i, fatal)
  \/ \E i \in 1..Len(sources), text \in Payloads : DataEvent(i, text)

Spec == Init /\ [][Next]_vars

\* ------------------------------------------------------------ OffsetSpec
\* The rotate and scale commands on their own, with the connection effect
\* and the telemetry stream running: runs of up to MaxOffsetCmds commands,
\* long enough for an axis to pass a full turn.
MaxOffsetCmds == 4

CanOffsetCommand == mounted /\ ~effectPending /\ nCmds < MaxOffsetCmds

OffsetRotate(axis) == CanOffsetCommand /\ RotateModelStep(axis)

OffsetScale(d) == CanOffsetCommand /\ ScaleModelStep(d)

OffsetNext ==
  \/ ConnectionEffect
  \/ \E axis \in 1..3 : OffsetRotate(axis)
  \/ \E d \in ScaleDeltas : OffsetScale(d)
  \/ \E i \in 1..Len(sources) : TransportEvent(i)
  \/ \E i \in 1..Len(sources) : OpenEvent(i)
  \/ \E i \in 1..Len(sources), text \in Payloads : DataEvent(i, text)

OffsetSpec == Init /\ [][OffsetNext]_vars

\* ================================================================ claims

\* C1: in every reachable state at most one EventSource is not closed; the
\* effect closes the previous one in the step that creates the next.
C1_AtMostOneLive ==
  /\ Cardinality(Live(sources)) <= 1
  /\ \A i \in 1..Len(sources) : i # eventSource => sources[i].readyState = CLOSED

\* a second connection is open, and the first was closed with an event of
\* it still queued
C1_Witness ==
  /\ Len(sources) = 2
  /\ sources[1].readyState = CLOSED
  /\ sources[1].queued = MaxInflight
  /\ sources[2].readyState = OPEN

\* C2 as stated: before the first press of 'Set and use' no connection has
\* been created.
C2_NoConnectionBeforeApply == nApply = 0 => Len(sources) = 0

\* C2 as amended: until the first press of 'Set and use' there is exactly
\* the one connection the mount effect opened, to the default URL (none
\* while that first effect run is still due).
C2_MountConnectsOnce ==
  nApply = 0 =>
    /\ Len(sources) <= 1
    /\ \A i \in 1..Len(sources) : sources[i].url = <<Origin, "/events">>
    /\ (Len(sources) = 0 => effectPending /\ changeConnectionUrl)

\* the mount connection is open and the user has typed another URL without
\* applying it
C2_Witness ==
  /\ nApply = 0
  /\ Len(sources) = 1
  /\ sources[1].readyState = OPEN
  /\ connectionUrl = Device
  /\ ~effectPending

\* C3 as stated: once the component is unmounted every connection it
\* created is closed.
C3_UnmountClosesAll == ~mounted => Live(sources) = {}

\* C4: an error event closes its source and sets the message in the same
\* step; while the message is set and no apply is under way, the message
\* stays and no connection is created.
C4_ErrorClosesNoRetry ==
  [][/\ ev'.type = "error" =>
          /\ sources'[ev'.src].readyState = CLOSED
          /\ mounted => connectionError' = ErrorMessage
     /\ (connectionError = ErrorMessage /\ ~changeConnectionUrl) =>
          /\ connectionError' = ErrorMessage
          /\ Len(sources') = Len(sources)
          /\ Live(sources') = {}]_vars

\* the message is still shown, and the connection still closed, after a
\* later user command
C4_Witness ==
  /\ mounted
  /\ connectionError = ErrorMessage
  /\ sources[eventSource].readyState = CLOSED
  /\ ev.type = "rotate"

\* C5: an event of a source that is closed, or that the effect has
\* replaced, is dropped: it changes neither rotation nor connectionError.
C5_ClosedSourceSilent ==
  [][\A i \in 1..Len(sources) :
       ((i # eventSource \/ sources[i].readyState = CLOSED)
          /\ ev'.src = i /\ ev'.type \in {"drop", "open", "data", "error"})
       => (ev'.type = "drop" /\ rotation' = rotation
             /\ connectionError' = connectionError)]_vars

\* an event queued for a source is dropped after the source's own error
\* listener closed it
C5_Witness ==
  /\ mounted
  /\ ev.type = "drop"
  /\ ev.src = eventSource
  /\ connectionError = ErrorMessage

\* C6: after the data listener ran on a well-formed sample {x, y, z},
\* rotation is [x, z, y]; {1, 2, 3} gives [1, 3, 2].
C6_DataMapsXZY ==
  (mounted /\ ev.type = "data" /\ ev.arg \in ValidPayloads) =>
    /\ rotation = <<JSONParse(ev.arg).x, JSONParse(ev.arg).z, JSONParse(ev.arg).y>>
    /\ ev.arg = Sample123 => rotation = <<Num(10000), Num(30000), Num(20000)>>

C6_Witness ==
  /\ mounted
  /\ ev.type = "data"
  /\ ev.arg = Sample123
  /\ rotation = <<Num(10000), Num(30000), Num(20000)>>

\* C7: the transform handed to the renderer has, on every axis, the base
\* rotation plus the offset rotation (NaN where the base is no number), and
\* the offset scale, for the cube and for a custom model.
C7_Compose ==
  mounted =>
    /\ frame.scale = modelScale
    /\ frame.kind = (IF model = NoModel THEN "box" ELSE "gltf")
    /\ frame.gltf = model
    /\ \A i \in 1..3 :
         frame.rotation[i] = IF IsNum(rotation[i])
                               THEN Num(rotation[i].v + modelRotation[i])
                               ELSE NaN

\* a custom model is shown with a sample and a Y offset composed
C7_Witness ==
  /\ mounted
  /\ frame.kind = "gltf"
  /\ rotation = <<Num(10000), Num(30000), Num(20000)>>
  /\ modelRotation = <<0, HalfPi, 0>>
  /\ frame.rotation = <<Num(10000), Num(30000 + HalfPi), Num(20000)>>

\* C8 as stated: a malformed data payload leaves rotation unchanged.
C8_MalformedKeepsRotation ==
  [][(ev'.type = "data" /\ ev'.arg \in MalformedPayloads) => rotation' = rotation]_vars

\* C9: an upload response with a status other than 404 sets model to
\* `${url}/model.glb`, url being the endpoint the upload was sent to; Cancel
\* sets model to null and leaves both offsets unchanged.
C9_UploadAndCancel ==
  [][/\ (mounted /\ ev'.type = "uploadSettled" /\ ev'.n \in ResponseStatuses \ {404}) =>
          model' = <<ev'.arg, "/model.glb">>
     /\ ev'.type = "modelDialogCancel" =>
          /\ model' = NoModel
          /\ modelRotation' = modelRotation
          /\ modelScale' = modelScale]_vars

\* a response with an error status other than 404 made the model custom
C9_Witness ==
  /\ mounted
  /\ ev.type = "uploadSettled"
  /\ ev.n = 500
  /\ model = <<Origin, "/model.glb">>

\* C10: modelRotation and modelScale change only in a step of a rotate or
\* scale menu command.
C10_OffsetOnlyByCommands ==
  [][(modelRotation' # modelRotation \/ modelScale' # modelScale) =>
       ev'.type \in {"rotate", "scale"}]_vars

\* an offset set before a reconnect is still there after it
C10_Witness ==
  /\ Len(sources) = 2
  /\ ev.type = "effect"
  /\ modelRotation = <<HalfPi, 0, 0>>

\* C11: data messages are applied in delivery order, last write wins: a
\* step that delivers a well-formed sample leaves rotation at the mapping of
\* that sample, and every other change of rotation is also made by the data
\* message of that very step, so no earlier sample comes back.
C11_LastWriteWins ==
  [][/\ (mounted /\ ev'.type = "data" /\ ev'.arg \in ValidPayloads) =>
          rotation' = <<JSONParse(ev'.arg).x, JSONParse(ev'.arg).z, JSONParse(ev'.arg).y>>
     /\ rotation' # rotation =>
          /\ ev'.type = "data"
          /\ sources[ev'.src].readyState = OPEN
          /\ JSONParse(ev'.arg).t = "object"
          /\ rotation' = <<JSONParse(ev'.arg).x, JSONParse(ev'.arg).z, JSONParse(ev'.arg).y>>]_vars

\* a second sample has replaced the first, and a render caused by a user
\* command followed it
C11_Witness ==
  /\ mounted
  /\ rotation = <<Num(10000), Num(30000), Num(20000)>>
  /\ ev.type = "scale"
  /\ frame.rotation = <<Num(10000), Num(30000), Num(20000)>>
  /\ frame.scale = modelScale

\* C12: neither sending the reset request nor its outcome (a response of
\* any status, or a rejection) changes the connections, the error message,
\* the rotation, the offsets or the model.
C12_ResetFireAndForget ==
  [][ev'.type \in {"reset", "resetSettled"} =>
       /\ sources' = sources
       /\ eventSource' = eventSource
       /\ connectionError' = connectionError
       /\ rotation' = rotation
       /\ modelRotation' = modelRotation
       /\ modelScale' = modelScale
       /\ model' = model]_vars

\* a reset request was rejected while the connection was open
C12_Witness ==
  /\ mounted
  /\ ev.type = "resetSettled"
  /\ ev.n = Rejected
  /\ sources[eventSource].readyState = OPEN
  /\ connectionError = Null

\* C13: whenever a connection is open, no error message is set.
C13_OpenMeansNoError ==
  mounted => \A i \in 1..Len(sources) :
               sources[i].readyState = OPEN => connectionError = Null

\* the connection made by a 'Set and use' has just opened
C13_Witness ==
  /\ mounted
  /\ ev.type = "open"
  /\ ev.src = 2
  /\ sources[2].readyState = OPEN
  /\ connectionError = Null

\* C14 as stated: an upload that ends with an error status or a rejection
\* leaves model and the error message as they were.
C14_FailedUploadKeepsModel ==
  [][(ev'.type = "uploadSettled" /\ ev'.n \in {Rejected, 404, 500}) =>
       /\ model' = model
       /\ connectionError' = connectionError]_vars

\* C15 as stated: from zero offsets, after 'Rotate model (Y)' (axis index 1)
\* and then the sample {0, 0, 0}, the composed rotation is [0, 0, pi/2].
C15_Scenario ==
  /\ mounted
  /\ nCmds = 1
  /\ modelRotation = RotateBy(<<0, 0, 0>>, 2)
  /\ modelScale = InitialScale
  /\ ev.type = "data"
  /\ ev.arg = Sample000

C15_ComposedOnZ == C15_Scenario => frame.rotation = <<Num(0), Num(0), Num(HalfPi)>>

\* C15 as amended: in that scenario the composed rotation is [0, pi/2, 0].
C15_ComposedOnY == C15_Scenario => frame.rotation = <<Num(0), Num(HalfPi), Num(0)>>

C15_Witness == C15_Scenario /\ frame.rotation[2] = Num(HalfPi)

\* the quarter turns made so far, over the three axes
Turns(r) == (r[1] + r[2] + r[3]) \div HalfPi
Abs(n) == IF n < 0 THEN 0 - n ELSE n

\* C16: a rotate command adds a quarter turn to its axis and nothing else, a
\* scale command adds its delta to the scale and nothing else, without
\* wrapping or clamping: every angle is a whole number of quarter turns, and
\* turns and scale deltas add up over the commands made.
C16_OffsetsAccumulate ==
  [][/\ ev'.type = "rotate" =>
          /\ modelRotation' = [modelRotation EXCEPT ![ev'.n] = @ + HalfPi]
          /\ modelScale' = modelScale
     /\ ev'.type = "scale" =>
          /\ modelScale' = modelScale + ev'.n
          /\ modelRotation' = modelRotation
     /\ \A i \in 1..3 : modelRotation'[i] >= 0 /\ modelRotation'[i] % HalfPi = 0
     /\ Turns(modelRotation') <= nCmds'
     /\ Abs(modelScale' - InitialScale) <= 10 * (nCmds' - Turns(modelRotation'))]_vars

\* four X rotations: the X offset is a full turn (2 pi), not 0
C16_Witness ==
  /\ mounted
  /\ nCmds = 4
  /\ modelRotation = <<4 * HalfPi, 0, 0>>
  /\ frame.rotation[1] = JsAdd(rotation[1], Num(4 * HalfPi))

\* C17: rotation changes only in the step of a data event.
C17_RotationOnlyByData ==
  [][rotation' # rotation => ev'.type = "data"]_vars

\* after a reconnect the rotation received on the previous connection is
\* still there
C17_Witness ==
  /\ mounted
  /\ ev.type = "effect"
  /\ Len(sources) = 2
  /\ sources[2].readyState = CONNECTING
  /\ rotation = <<Num(10000), Num(30000), Num(20000)>>

\* C18: once the effect has settled there is one connection for the mount
\* and one per press of 'Set and use', never more; typing in the URL field,
\* 'Cancel and reset' and the effect run they cause leave the connections
\* as they are.
C18_OneConnectionPerApply ==
  [][/\ Len(sources') <= nApply' + 1
     /\ ~effectPending' => Len(sources') = nApply' + 1
     /\ (ev'.type \in {"changeUrlInput", "cancelAndReset"}
           \/ (ev'.type = "effect" /\ ~changeConnectionUrl)) =>
          /\ sources' = sources
          /\ eventSource' = eventSource]_vars

\* one apply of a typed URL: two connections, the second to that URL, and
\* the effect has settled
C18_Witness ==
  /\ mounted
  /\ ~effectPending
  /\ nApply = 1
  /\ Len(sources) = 2
  /\ sources[2].url = <<Device, "/events">>
  /\ sources[2].readyState # CLOSED

\* C19 as stated: while a connection is live, connectionUrl (used by the
\* reset and upload requests) is the URL that connection was opened with.
C19_RequestsFollowStream ==
  (mounted /\ ~effectPending) =>
    \A i \in Live(sources) : sources[i].url = <<connectionUrl, "/events">>

\* C20 as stated, for the response that is the next event after Cancel: it
\* leaves the model at the default.
C20_CancelledUploadIgnored ==
  [][(ev.type = "modelDialogCancel" /\ ev'.type = "uploadSettled") =>
       model' = NoModel]_vars

====
